---- MODULE Spec2Model ----
(***************************************************************************)
(* BioAI Explorer (src/app.py): a Streamlit script that is re-executed     *)
(* from the top on every interaction of one browser session.  The model    *)
(* follows one interactive session: the credential store users.json, the   *)
(* session flags, the navigation choice and the three dashboard handlers   *)
(* (UniProt fetch with retries, BLAST submit and poll, Gemini ask).        *)
(* Every HTTP exchange is one step whose response is chosen by the remote  *)
(* service, so the calls, sleeps and results of a handler can be counted.  *)
(***************************************************************************)
EXTENDS Integers, Sequences, FiniteSets, TLC

\* ---------------------------------------------------------------- bounds
MaxSignupCalls == 2     \* signup calls counted per identifier
MaxRetries == 3         \* fetch_uniprot_json is tried with retries in 1..MaxRetries
MaxHits == 11           \* hits in a result document
MaxWaiting == 2         \* WAITING answers the service gives to one job
MaxSeqLen == 302        \* residues of a protein sequence

\* ------------------------------------------------------ input alphabets
Emails == {"", "ann@lab.org"}       \* the text inputs start empty
Passwords == {"", "pw1"}
Salts == {"salt-1", "salt-2"}       \* what bcrypt.gensalt() can draw

None == "None"                       \* Python's None
NoPw == "<no password>"

\* ------------------------------------------------------------ variables
VARIABLES
    usersFile,      \* users.json: identifier -> stored hash (a dict)
    logged_in,      \* st.session_state.logged_in
    user,           \* st.session_state.user
    choice,         \* the option_menu selection (None while not rendered)
    pc,             \* where the running script is: "idle" between runs
    loc,            \* local variables of the current or last HTTP handler
    log,            \* HTTP calls and sleeps of the current or last handler
    out,            \* what the last handler reported
    signupCalls,    \* history: signup calls made per identifier
    firstHash,      \* history: hash computed by the first signup call
    firstPw,        \* history: password of the first signup call
    verified,       \* history: a login succeeded and no logout followed it
    sessions        \* script runs of the other browser sessions

authVars == <<usersFile, logged_in, user, signupCalls, firstHash, firstPw, verified,
              sessions>>
vars == <<usersFile, logged_in, user, choice, pc, loc, log, out,
          signupCalls, firstHash, firstPw, verified, sessions>>

\* ------------------------------------------------------------- bcrypt
\* bcrypt.hashpw(password, salt): the salt is kept in the hash, the digest
\* is a one-way function of salt and password (distinct inputs, distinct
\* digests).
hashpw(password, salt) == [salt |-> salt, digest |-> <<salt, password>>]

\* bcrypt.checkpw(password, hashed): re-hash with the stored salt, compare.
checkpw(password, hashed) == hashpw(password, hashed.salt) = hashed

\* ------------------------------------------------------ credential store
\* load_users(): the whole file, {} when there is none.
load_users == usersFile

\* signup(email, password) on the loaded dict `users`; hashed_pw is the
\* hash line 148 computes.  Returns the result pair and the dict after it,
\* and whether save_users wrote it.
\* signup without the membership test of line 146.
signup_overwrites(users, email, hashed_pw) ==
    [ok |-> TRUE, msg |-> "Account created successfully!",
     users |-> [e \in (DOMAIN users) \cup {email} |->
                    IF e = email THEN hashed_pw ELSE users[e]],
     saved |-> TRUE]

signup(users, email, hashed_pw) ==
    IF email \in DOMAIN users
    THEN [ok |-> FALSE, msg |-> "User already exists!",
          users |-> users, saved |-> FALSE]
    ELSE [ok |-> TRUE, msg |-> "Account created successfully!",
          users |-> [e \in (DOMAIN users) \cup {email} |->
                         IF e = email THEN hashed_pw ELSE users[e]],
          saved |-> TRUE]

\* login(email, password) on the loaded dict `users`.
\* login without the bcrypt.checkpw of line 160.
login_any_password(users, email, password) ==
    IF email \notin DOMAIN users
    THEN [ok |-> FALSE, msg |-> "No account found!"]
    ELSE [ok |-> TRUE, msg |-> "Login successful!"]

login(users, email, password) ==
    IF email \notin DOMAIN users
    THEN [ok |-> FALSE, msg |-> "No account found!"]
    ELSE IF checkpw(password, users[email])
         THEN [ok |-> TRUE, msg |-> "Login successful!"]
         ELSE [ok |-> FALSE, msg |-> "Invalid password!"]

NoLocals == [h |-> "none"]

\* Every browser session runs the script in a thread of its own.  A run
\* holds the dict `users` line 140 loaded and the session's state; between
\* runs there is no dict.
SessionIds == {"s1", "s2"}
NoRun(in, who) == [running |-> FALSE, users |-> << >>, logged_in |-> in, user |-> who]
NoSessions == [s \in SessionIds |-> NoRun(FALSE, None)]

\* ------------------------------------------------------------- session
\* Lines 167-169: the first run of a session.
Init ==
    /\ usersFile = << >>
    /\ logged_in = FALSE
    /\ user = None
    /\ choice = None
    /\ pc = "idle"
    /\ loc = NoLocals
    /\ log = << >>
    /\ out = [op |-> "start"]
    /\ signupCalls = [e \in Emails |-> 0]
    /\ firstHash = [e \in Emails |-> None]
    /\ firstPw = [e \in Emails |-> NoPw]
    /\ verified = FALSE
    /\ sessions = NoSessions

\* The "Login" button of the login tab (lines 179-187).
LoginButton ==
    /\ pc = "idle"
    /\ ~logged_in
    /\ \E email \in Emails, password \in Passwords :
         LET r == login(load_users, email, password) IN
           /\ out' = [op |-> "login", email |-> email, password |-> password,
                      ok |-> r.ok, msg |-> r.msg]
           /\ IF r.ok
              THEN /\ logged_in' = TRUE
                   /\ user' = email
                   /\ choice' = "Home"      \* st.rerun(): the menu is mounted
                   /\ verified' = TRUE
              ELSE UNCHANGED <<logged_in, user, choice, verified>>
    /\ log' = << >>
    /\ loc' = NoLocals
    /\ UNCHANGED <<usersFile, signupCalls, firstHash, firstPw, pc, sessions>>

\* The "Sign Up" button logging the new account in.
SignUpButton_logs_in ==
    /\ pc = "idle"
    /\ ~logged_in
    /\ \E email \in Emails, password \in Passwords, salt \in Salts :
         LET hashed_pw == hashpw(password, salt)
             r == signup(load_users, email, hashed_pw) IN
           /\ signupCalls[email] < MaxSignupCalls
           /\ usersFile' = IF r.saved THEN r.users ELSE usersFile
           /\ out' = [op |-> "signup", email |-> email, password |-> password,
                      ok |-> r.ok, msg |-> r.msg]
           /\ signupCalls' = [signupCalls EXCEPT ![email] = @ + 1]
           /\ firstHash' = IF signupCalls[email] = 0
                           THEN [firstHash EXCEPT ![email] = hashed_pw]
                           ELSE firstHash
           /\ firstPw' = IF signupCalls[email] = 0
                         THEN [firstPw EXCEPT ![email] = password]
                         ELSE firstPw
           /\ IF r.ok
              THEN /\ logged_in' = TRUE
                   /\ user' = email
                   /\ choice' = "Home"
                   /\ verified' = TRUE
              ELSE UNCHANGED <<logged_in, user, choice, verified>>
    /\ log' = << >>
    /\ loc' = NoLocals
    /\ UNCHANGED <<pc, sessions>>

\* The "Sign Up" button of the sign-up tab (lines 192-197).
SignUpButton ==
    /\ pc = "idle"
    /\ ~logged_in
    /\ \E email \in Emails, password \in Passwords, salt \in Salts :
         LET hashed_pw == hashpw(password, salt)
             r == signup(load_users, email, hashed_pw) IN
           /\ signupCalls[email] < MaxSignupCalls
           /\ usersFile' = IF r.saved THEN r.users ELSE usersFile
           /\ out' = [op |-> "signup", email |-> email, password |-> password,
                      ok |-> r.ok, msg |-> r.msg]
           /\ signupCalls' = [signupCalls EXCEPT ![email] = @ + 1]
           /\ firstHash' = IF signupCalls[email] = 0
                           THEN [firstHash EXCEPT ![email] = hashed_pw]
                           ELSE firstHash
           /\ firstPw' = IF signupCalls[email] = 0
                         THEN [firstPw EXCEPT ![email] = password]
                         ELSE firstPw
    /\ log' = << >>
    /\ loc' = NoLocals
    /\ UNCHANGED <<logged_in, user, verified, choice, pc, sessions>>

\* --------------------------------------------------- dashboard, logout
\* The sidebar menu (lines 206-212); it is rendered only while logged in.
Choices == {"Home", "Protein Explorer", "BLAST Search", "AI Assistant", "Logout"}

\* Lines 171 and 199: the dashboard is the else branch of the login portal.
\* The dashboard rendered whatever the flag says.
Dashboard_ungated == TRUE

Dashboard == logged_in

\* Lines 214-340: the page of the selected menu entry.
Page(c) == Dashboard /\ choice = c

\* Selecting a menu entry reruns the script; "Logout" is the branch of
\* lines 340-344, the other entries render their page.
Navigate ==
    /\ pc = "idle"
    /\ Dashboard
    /\ \E c \in Choices \ {"Logout"} :
         /\ choice' = c
         /\ out' = [op |-> "view", page |-> c]
    /\ log' = << >>
    /\ loc' = NoLocals
    /\ UNCHANGED <<authVars, pc>>

\* The logout branch without line 342.
Logout_keeps_user ==
    /\ pc = "idle"
    /\ Dashboard
    /\ logged_in' = FALSE
    /\ choice' = None
    /\ verified' = FALSE
    /\ out' = [op |-> "logout"]
    /\ log' = << >>
    /\ loc' = NoLocals
    /\ UNCHANGED <<usersFile, user, signupCalls, firstHash, firstPw, pc, sessions>>

Logout ==
    /\ pc = "idle"
    /\ Dashboard
    /\ logged_in' = FALSE
    /\ user' = None
    /\ choice' = None                       \* st.rerun(): the menu is gone
    /\ verified' = FALSE
    /\ out' = [op |-> "logout"]
    /\ log' = << >>
    /\ loc' = NoLocals
    /\ UNCHANGED <<usersFile, signupCalls, firstHash, firstPw, pc, sessions>>

\* ---------------------------------------------- annotation fetch (UniProt)
DefaultRetries == 3
ProteinIds == {"", "P69905"}

\* A JSON object is a function from its keys; {} is the empty function.
EmptyDoc == << >>
RecordDoc == [accession |-> "P69905"]

\* Text is a sequence of one-character strings.  A protein sequence of n
\* residues, written with the twenty amino-acid letters from offset k on.
AminoAcids == <<"A", "C", "D", "E", "F", "G", "H", "I", "K", "L",
                "M", "N", "P", "Q", "R", "S", "T", "V", "W", "Y">>
Residues(n, k) == [i \in 1..n |-> AminoAcids[((i + k) % 20) + 1]]

\* A UniProt entry with its nested fields, and entries that hold a
\* sequence of n residues and nothing else.
FullDoc ==
    [accession |-> "P69905",
     proteinDescription |->
        [recommendedName |-> [fullName |-> [value |-> "Hemoglobin subunit alpha"]]],
     organism |-> [scientificName |-> "Homo sapiens"],
     sequence |-> [value |-> Residues(3, 0), length |-> 3]]
SeqDoc(n, k) == [accession |-> "P69905", sequence |-> [value |-> Residues(n, k)]]

\* What session.get(url, timeout) can produce: an exception, or a response
\* with a status code and a body that is JSON or not.
HttpResp(status, isJson, doc) ==
    [exc |-> "none", status |-> status, isJson |-> isJson, doc |-> doc]
NetError(e) == [exc |-> e, status |-> 0, isJson |-> FALSE, doc |-> EmptyDoc]

FetchResponses ==
    { NetError("Timeout"), NetError("ConnectionError"),
      HttpResp(200, TRUE, RecordDoc), HttpResp(200, TRUE, FullDoc),
      HttpResp(200, TRUE, EmptyDoc),
      HttpResp(200, FALSE, EmptyDoc),
      HttpResp(404, FALSE, EmptyDoc), HttpResp(500, FALSE, EmptyDoc) }

\* Response.raise_for_status(): HTTPError for a 4xx or 5xx status.
raise_for_status(resp) == resp.status >= 400 /\ resp.status < 600

\* A Python value that is None or a parsed JSON object.
PyNone == [isNone |-> TRUE, doc |-> EmptyDoc]
PyDoc(d) == [isNone |-> FALSE, doc |-> d]

\* How one pass of the loop ends: return, raise, or sleep and go round.
Return(value) == [ctl |-> "return", value |-> value, err |-> "none", slept |-> << >>]
Raise(err) == [ctl |-> "raise", value |-> PyNone, err |-> err, slept |-> << >>]
\* time.sleep(1) for time.sleep(backoff) at lines 245 and 255.
Retry_fixed_wait(backoff) == [ctl |-> "continue", value |-> PyNone, err |-> "none",
                              slept |-> <<1>>]
Retry(backoff) == [ctl |-> "continue", value |-> PyNone, err |-> "none",
                   slept |-> <<backoff>>]

\* One pass of the loop body of fetch_uniprot_json (lines 238-256) for the
\* response `resp`.  resp.json() on a body that is not JSON raises
\* requests.exceptions.JSONDecodeError, a RequestException: line 252.
\* The loop body with a 404 handled like a transient failure.
fetch_attempt_retries_404(retries, attempt, backoff, resp) ==
    IF resp.exc /= "none"
    THEN IF attempt = retries THEN Raise(resp.exc) ELSE Retry(backoff)
    ELSE IF raise_for_status(resp)
    THEN IF attempt = retries THEN Raise("HTTPError") ELSE Retry(backoff)
    ELSE IF ~resp.isJson
    THEN IF attempt = retries THEN Raise("JSONDecodeError") ELSE Retry(backoff)
    ELSE Return(PyDoc(resp.doc))

\* The loop body without the `if attempt == retries: raise` of lines 243 and 253.
fetch_attempt_never_raises(retries, attempt, backoff, resp) ==
    IF resp.exc /= "none" THEN Retry(backoff)
    ELSE IF raise_for_status(resp)
    THEN IF resp.status = 404 THEN Return(PyNone) ELSE Raise("HTTPError")
    ELSE IF ~resp.isJson THEN Retry(backoff)
    ELSE Return(PyDoc(resp.doc))

\* The loop body without the return value of line 241.
fetch_attempt_drops_record(retries, attempt, backoff, resp) ==
    IF resp.exc /= "none"
    THEN IF attempt = retries THEN Raise(resp.exc) ELSE Retry(backoff)
    ELSE IF raise_for_status(resp)
    THEN IF resp.status = 404 THEN Return(PyNone) ELSE Raise("HTTPError")
    ELSE IF ~resp.isJson
    THEN IF attempt = retries THEN Raise("JSONDecodeError") ELSE Retry(backoff)
    ELSE Return(PyNone)

\* The loop body with every HTTP error but the 404 handled at line 252.
fetch_attempt_retries_5xx(retries, attempt, backoff, resp) ==
    IF resp.exc /= "none"
    THEN IF attempt = retries THEN Raise(resp.exc) ELSE Retry(backoff)
    ELSE IF raise_for_status(resp) /\ resp.status = 404 THEN Return(PyNone)
    ELSE IF raise_for_status(resp)
    THEN IF attempt = retries THEN Raise("HTTPError") ELSE Retry(backoff)
    ELSE IF ~resp.isJson
    THEN IF attempt = retries THEN Raise("JSONDecodeError") ELSE Retry(backoff)
    ELSE Return(PyDoc(resp.doc))

fetch_attempt(retries, attempt, backoff, resp) ==
    IF resp.exc = "Timeout"
    THEN IF attempt = retries THEN Raise("Timeout") ELSE Retry(backoff)
    ELSE IF resp.exc /= "none"
    THEN IF attempt = retries THEN Raise(resp.exc) ELSE Retry(backoff)
    ELSE IF raise_for_status(resp)
    THEN IF resp.status = 404 THEN Return(PyNone) ELSE Raise("HTTPError")
    ELSE IF ~resp.isJson
    THEN IF attempt = retries THEN Raise("JSONDecodeError") ELSE Retry(backoff)
    ELSE Return(PyDoc(resp.doc))

\* `not data` of line 265: None and {} are falsy.
Falsy(value) == value.isNone \/ DOMAIN value.doc = {}

\* dict.get(key, default)
get(d, key, default) == IF key \in DOMAIN d THEN d[key] ELSE default

\* `x or default` for a string or None.
OrElse(x, default) == IF x = None \/ x = "" THEN default ELSE x

\* Lines 275-276: seq, which is None when the entry holds no sequence value.
NoSeq == [isNone |-> TRUE, val |-> << >>]
seq_of(data) ==
    IF "value" \in DOMAIN get(data, "sequence", EmptyDoc)
    THEN [isNone |-> FALSE, val |-> data.sequence.value]
    ELSE NoSeq

\* Line 279: the preview of seq.  `seq` is falsy when None or empty.
PreviewLimit == 300
Ellipsis == <<".", ".", ".">>
SeqNotAvailable == <<"Sequence not available">>
\* Line 279 with `>=` for `>`.
preview_cuts_at_limit(seq) ==
    IF ~seq.isNone /\ Len(seq.val) > 0 /\ Len(seq.val) >= PreviewLimit
    THEN SubSeq(seq.val, 1, PreviewLimit) \o Ellipsis
    ELSE IF ~seq.isNone /\ Len(seq.val) > 0 THEN seq.val ELSE SeqNotAvailable

preview(seq) ==
    IF ~seq.isNone /\ Len(seq.val) > 0 /\ Len(seq.val) > PreviewLimit
    THEN SubSeq(seq.val, 1, PreviewLimit) \o Ellipsis
    ELSE IF ~seq.isNone /\ Len(seq.val) > 0 THEN seq.val ELSE SeqNotAvailable

\* Lines 277-278: the stored length, else the length of seq, else "N/A".
length_of(data) ==
    LET stored == get(get(data, "sequence", EmptyDoc), "length", 0)
        seq == seq_of(data) IN
      IF stored /= 0 THEN stored
      ELSE IF ~seq.isNone /\ Len(seq.val) > 0 THEN Len(seq.val) ELSE "N/A"

\* Lines 269-287: the record the page shows for a truthy `data`.
render(data) ==
    [name |-> OrElse(get(get(get(get(data, "proteinDescription", EmptyDoc),
                                 "recommendedName", EmptyDoc),
                             "fullName", EmptyDoc), "value", None),
                     "Name not available"),
     organism |-> OrElse(get(get(data, "organism", EmptyDoc), "scientificName", None),
                         "Organism not available"),
     length |-> length_of(data),
     preview |-> preview(seq_of(data)),
     raw |-> [k \in {"accession", "dbReferences", "comments"} \cap DOMAIN data |-> data[k]]]
NoInfo == EmptyDoc

\* The caller of lines 258-287: what the page shows for the outcome.
fetch_report(r) ==
    IF r.ctl = "raise"
    THEN IF r.err = "Timeout"
         THEN [op |-> "fetch", shown |-> "UniProt request timed out after multiple attempts.",
               err |-> r.err, data |-> PyNone, info |-> NoInfo]
         ELSE [op |-> "fetch", shown |-> "Request failed", err |-> r.err, data |-> PyNone,
               info |-> NoInfo]
    ELSE IF Falsy(r.value)
         THEN [op |-> "fetch", shown |-> "Protein not found (404).", err |-> "none",
               data |-> r.value, info |-> NoInfo]
         ELSE [op |-> "fetch", shown |-> "Protein Information", err |-> "none",
               data |-> r.value, info |-> render(r.value.doc)]

\* The "Fetch Data" button (lines 229-259).  The page calls the function
\* with retries=3; the function itself takes any retries.
FetchData ==
    /\ pc = "idle"
    /\ Page("Protein Explorer")
    /\ \E protein_id \in ProteinIds, retries \in 1..MaxRetries :
         IF protein_id = ""
         THEN /\ out' = [op |-> "fetch", shown |-> "Please enter a UniProt ID.",
                         err |-> "none", data |-> PyNone, info |-> NoInfo]
              /\ loc' = NoLocals
              /\ UNCHANGED pc
         ELSE /\ pc' = "fetch"
              /\ loc' = [h |-> "fetch", protein_id |-> protein_id, retries |-> retries,
                         attempt |-> 1, backoff |-> 1]
              /\ out' = [op |-> "fetch", shown |-> "running", err |-> "none",
                         data |-> PyNone, info |-> NoInfo]
    /\ log' = << >>
    /\ UNCHANGED <<authVars, choice>>

\* One session.get of the loop, with what follows it in the same pass, for
\* the responses the catalog can give.
FetchGetFrom(Responses) ==
    /\ pc = "fetch"
    /\ \E resp \in Responses :
         LET r == fetch_attempt(loc.retries, loc.attempt, loc.backoff, resp)
             sleeps == [i \in 1..Len(r.slept) |-> <<"sleep", r.slept[i]>>] IN
           /\ log' = Append(log, <<"get", resp>>) \o sleeps
           /\ IF r.ctl = "continue" /\ loc.attempt < loc.retries
              THEN /\ loc' = [loc EXCEPT !.attempt = @ + 1, !.backoff = @ * 2]
                   /\ UNCHANGED <<pc, out>>
              ELSE /\ pc' = "idle"
                   /\ UNCHANGED loc
                   /\ out' = fetch_report(IF r.ctl = "continue" THEN Return(PyNone) ELSE r)
    /\ UNCHANGED <<authVars, choice>>

FetchGet == FetchGetFrom(FetchResponses)

\* ------------------------------------------------ similarity search (BLAST)
PollInterval == 5
TopHits == 10

\* A response body is the sequence of its lines (str.splitlines()).
Min(a, b) == IF a <= b THEN a ELSE b

\* `pat in line`
Contains(line, pat) ==
    \E i \in 1..(Len(line) - Len(pat) + 1) : SubSeq(line, i, i + Len(pat) - 1) = pat

\* line.split(sep)[1] for a one-character sep: the text between the first
\* sep and the next one (or the end of the line).
Positions(line, sep) == {i \in 1..Len(line) : line[i] = sep}
MinOf(S) == CHOOSE x \in S : \A y \in S : x <= y
SplitSecond(line, sep) ==
    LET first == MinOf(Positions(line, sep))
        later == {i \in Positions(line, sep) : i > first}
        stop == IF later = {} THEN Len(line) + 1 ELSE MinOf(later)
    IN SubSeq(line, first + 1, stop - 1)

\* str.strip()
Whitespace == {" ", "\t"}
Strip(t) ==
    LET keep == {i \in 1..Len(t) : t[i] \notin Whitespace} IN
      IF keep = {} THEN << >>
      ELSE SubSeq(t, MinOf(keep), CHOOSE x \in keep : \A y \in keep : y <= x)

\* Lines 108-111 of run_blast: the lines that hold "RID =", then the value
\* of the first of them.
RidPattern == <<"R", "I", "D", " ", "=">>
rid_lines(lines) == SelectSeq(lines, LAMBDA line : Contains(line, RidPattern))
\* Line 111 without .strip().
parse_rid_unstripped(lines) == SplitSecond(rid_lines(lines)[1], "=")

parse_rid(lines) == Strip(SplitSecond(rid_lines(lines)[1], "="))

\* The request identifiers the service issues, and its submit page: a
\* QBlastInfo block with a RID line and an RTOE line.
Rids == {<<"A", "B", "C", "1", "2", "3">>, <<"X", "7">>}
InfoBegin == <<"Q", "B", "l", "a", "s", "t", "I", "n", "f", "o", "B", "e", "g", "i", "n">>
RidLine(rid) == <<" ", " ", " ", " ", "R", "I", "D", " ", "=", " ">> \o rid
RtoeLine == <<" ", " ", " ", " ", "R", "T", "O", "E", " ", "=", " ", "1", "8">>
ErrorLine == <<"E", "r", "r", "o", "r", ":", " ", "q", "u", "e", "r", "y">>
SubmitPage(rid) == <<InfoBegin, RidLine(rid), RtoeLine>>

SubmitResponses ==
    { [exc |-> "ConnectionError", status |-> 0, lines |-> << >>, issued |-> << >>],
      [exc |-> "none", status |-> 500, lines |-> <<ErrorLine>>, issued |-> << >>],
      [exc |-> "none", status |-> 200, lines |-> <<ErrorLine>>, issued |-> << >>],
      [exc |-> "none", status |-> 200, lines |-> << >>, issued |-> << >>] }
    \cup { [exc |-> "none", status |-> 200, lines |-> SubmitPage(rid), issued |-> rid] :
             rid \in Rids }

\* The hits of a result document, as the service ranks them.
Hit(i) == [description |-> <<[accession |-> <<"acc", i>>, title |-> <<"title", i>>]>>,
           hsps |-> <<[bit_score |-> 1000 - i, evalue |-> i]>>]
HitNoTitle(i) == [description |-> <<[accession |-> <<"acc", i>>]>>,
                  hsps |-> <<[bit_score |-> 1000 - i, evalue |-> i]>>]
HitLists ==
    { [i \in 1..n |-> Hit(i)] : n \in 0..MaxHits } \cup
    { [i \in 1..n |-> Hit(n + 1 - i)] : n \in 2..MaxHits }
ResultDoc(hits) ==
    [BlastOutput2 |-> <<[report |-> [results |-> [search |-> [hits |-> hits]]]]>>]
ResultDocs ==
    { ResultDoc(hits) : hits \in HitLists } \cup
    { EmptyDoc, [BlastOutput2 |-> << >>],
      [BlastOutput2 |-> <<[report |-> [results |-> EmptyDoc]]>>],
      ResultDoc(<<Hit(1), HitNoTitle(2)>>) }

\* What the poll GET can produce.  `marks` are the status markers found in
\* r2.text.
PollResp(marks, isJson, doc) ==
    [exc |-> "none", marks |-> marks, isJson |-> isJson, doc |-> doc]
PollResponses ==
    { [exc |-> "ConnectionError", marks |-> {}, isJson |-> FALSE, doc |-> EmptyDoc],
      PollResp({"Status=WAITING"}, FALSE, EmptyDoc),
      PollResp({"Status=FAILED"}, FALSE, EmptyDoc),
      PollResp({"Status=UNKNOWN"}, FALSE, EmptyDoc) }
    \cup { PollResp({}, TRUE, doc) : doc \in ResultDocs }

\* Lines 104-111: what run_blast does with the submit response.
\* run_blast without the test of lines 109-110.
blast_submitted_polls_anyway(resp) ==
    IF resp.exc /= "none" THEN [ctl |-> "raise", err |-> resp.exc, rid |-> << >>]
    ELSE IF raise_for_status(resp) THEN [ctl |-> "raise", err |-> "HTTPError", rid |-> << >>]
    ELSE IF Len(rid_lines(resp.lines)) = 0 THEN [ctl |-> "poll", err |-> "none", rid |-> << >>]
    ELSE [ctl |-> "poll", err |-> "none", rid |-> parse_rid(resp.lines)]

blast_submitted(resp) ==
    IF resp.exc /= "none" THEN [ctl |-> "raise", err |-> resp.exc, rid |-> << >>]
    ELSE IF raise_for_status(resp) THEN [ctl |-> "raise", err |-> "HTTPError", rid |-> << >>]
    ELSE IF Len(rid_lines(resp.lines)) = 0
    THEN [ctl |-> "raise", err |-> "Failed to get BLAST RID", rid |-> << >>]
    ELSE [ctl |-> "poll", err |-> "none", rid |-> parse_rid(resp.lines)]

\* Lines 117-124: what run_blast does with one poll response.
\* The loop without the test of lines 119-120.
blast_polled_ignores_failed(resp) ==
    IF resp.exc /= "none" THEN [ctl |-> "raise", err |-> resp.exc]
    ELSE IF "Status=WAITING" \in resp.marks THEN [ctl |-> "continue", err |-> "none"]
    ELSE IF ~resp.isJson THEN [ctl |-> "raise", err |-> "JSONDecodeError"]
    ELSE [ctl |-> "return", err |-> "none"]

\* The loop giving up on a Status=WAITING answer.
blast_polled_gives_up(resp) ==
    IF resp.exc /= "none" THEN [ctl |-> "raise", err |-> resp.exc]
    ELSE IF "Status=WAITING" \in resp.marks THEN [ctl |-> "raise", err |-> "TimeoutError"]
    ELSE IF "Status=FAILED" \in resp.marks
    THEN [ctl |-> "raise", err |-> "BLAST search failed"]
    ELSE IF ~resp.isJson THEN [ctl |-> "raise", err |-> "JSONDecodeError"]
    ELSE [ctl |-> "return", err |-> "none"]

blast_polled(resp) ==
    IF resp.exc /= "none" THEN [ctl |-> "raise", err |-> resp.exc]
    ELSE IF "Status=WAITING" \in resp.marks THEN [ctl |-> "continue", err |-> "none"]
    ELSE IF "Status=FAILED" \in resp.marks
    THEN [ctl |-> "raise", err |-> "BLAST search failed"]
    ELSE IF ~resp.isJson THEN [ctl |-> "raise", err |-> "JSONDecodeError"]
    ELSE [ctl |-> "return", err |-> "none"]

\* Line 324: the nested hit list, with the default of every level.
HasOutput(results) == Len(get(results, "BlastOutput2", <<EmptyDoc>>)) >= 1
hits_of(results) ==
    get(get(get(get(get(results, "BlastOutput2", <<EmptyDoc>>)[1],
                    "report", EmptyDoc), "results", EmptyDoc), "search", EmptyDoc),
        "hits", << >>)

\* Lines 328-331 raise KeyError or IndexError on a hit that lacks a field.
HitComplete(h) ==
    /\ "description" \in DOMAIN h /\ Len(h.description) >= 1
    /\ {"accession", "title"} \subseteq DOMAIN h.description[1]
    /\ "hsps" \in DOMAIN h /\ Len(h.hsps) >= 1
    /\ {"bit_score", "evalue"} \subseteq DOMAIN h.hsps[1]

Row(h) ==
    [k \in {"Accession", "Description", "Score", "E-value"} |->
        CASE k = "Accession" -> h.description[1].accession
          [] k = "Description" -> h.description[1].title
          [] k = "Score" -> h.hsps[1].bit_score
          [] k = "E-value" -> h.hsps[1].evalue]

\* hits[:10]
\* Line 327 without the slice.
top_hits_all(hits) == hits

top_hits(hits) == SubSeq(hits, 1, Min(Len(hits), TopHits))

Failed(err) == [op |-> "blast", shown |-> "BLAST failed", err |-> err, table |-> << >>]

\* Lines 324-337: what the page shows for the document run_blast returned.
blast_report(results) ==
    IF ~HasOutput(results) THEN Failed("IndexError")
    ELSE LET hits == hits_of(results) IN
      IF Len(hits) = 0
      THEN [op |-> "blast", shown |-> "No hits found.", err |-> "none", table |-> << >>]
      ELSE IF \E i \in 1..Len(top_hits(hits)) : ~HitComplete(hits[i])
      THEN Failed("KeyError")
      ELSE [op |-> "blast", shown |-> "table", err |-> "none",
            table |-> [i \in 1..Len(top_hits(hits)) |-> Row(top_hits(hits)[i])]]

SeqInputs == {<< >>, <<" ">>, <<"M", "K">>}
Programs == {"blastp"}

\* The "Run BLAST" button (lines 317-323).
RunBlast ==
    /\ pc = "idle"
    /\ Page("BLAST Search")
    /\ \E seq_input \in SeqInputs, program \in Programs :
         IF Strip(seq_input) = << >>
         THEN /\ out' = [op |-> "blast", shown |-> "Please enter a sequence.",
                         err |-> "none", table |-> << >>]
              /\ loc' = NoLocals
              /\ UNCHANGED pc
         ELSE /\ pc' = "submit"
              /\ loc' = [h |-> "blast", sequence |-> seq_input, program |-> program,
                         database |-> "nr", rid |-> << >>, issued |-> << >>,
                         waits |-> 0]
              /\ out' = [op |-> "blast", shown |-> "running", err |-> "none",
                         table |-> << >>]
    /\ log' = << >>
    /\ UNCHANGED <<authVars, choice>>

\* The POST of line 104 and the parsing of its answer.
BlastPost ==
    /\ pc = "submit"
    /\ \E resp \in SubmitResponses :
         LET r == blast_submitted(resp) IN
           /\ log' = Append(log, <<"post", resp>>)
           /\ IF r.ctl = "poll"
              THEN /\ pc' = "poll"
                   /\ loc' = [loc EXCEPT !.rid = r.rid, !.issued = resp.issued]
                   /\ UNCHANGED out
              ELSE /\ pc' = "idle"
                   /\ UNCHANGED loc
                   /\ out' = Failed(r.err)
    /\ UNCHANGED <<authVars, choice>>

\* One pass of the polling loop (lines 115-122), and after the loop the
\* return of line 124 and the page's rendering.
BlastPoll ==
    /\ pc = "poll"
    /\ \E resp \in PollResponses :
         LET r == blast_polled(resp) IN
           /\ "Status=WAITING" \in resp.marks => loc.waits < MaxWaiting
           /\ log' = log \o <<<<"sleep", PollInterval>>, <<"get", loc.rid, resp>>>>
           /\ IF r.ctl = "continue"
              THEN /\ loc' = [loc EXCEPT !.waits = @ + 1]
                   /\ UNCHANGED <<pc, out>>
              ELSE /\ pc' = "idle"
                   /\ UNCHANGED loc
                   /\ out' = IF r.ctl = "raise" THEN Failed(r.err)
                             ELSE blast_report(resp.doc)
    /\ UNCHANGED <<authVars, choice>>

\* ------------------------------------------------- assistant (Gemini)
\* What lines 77-93 find at the start of a run: whether st.secrets can be
\* read, the key it holds under api.gemini_key (None when it holds none),
\* and whether genai.configure accepts it.
SecretsStates ==
    { [readable |-> r, key |-> k, configures |-> c] :
        r \in BOOLEAN, k \in {None, "", "AIza-key"}, c \in BOOLEAN }

\* Lines 77-93 without the reset of line 88.
genai_key_keeps_rejected(secrets) ==
    IF ~secrets.readable THEN None
    ELSE IF secrets.key = None THEN None
    ELSE secrets.key

\* Lines 77-93: the value of genai_key after them.
genai_key(secrets) ==
    IF ~secrets.readable THEN None
    ELSE IF secrets.key = None THEN None
    ELSE IF ~secrets.configures THEN None
    ELSE secrets.key

\* `not genai_key`: None and "" are falsy.
KeyMissing(key) == key = None \/ key = ""

Queries == {<< >>, <<" ", "\t">>, <<"h", "i", "?">>}
ModelResponses ==
    { [exc |-> "none", text |-> "an answer"], [exc |-> "none", text |-> ""],
      [exc |-> "none", text |-> None], [exc |-> "ServiceError", text |-> None] }

\* Lines 293-308: the outcome for a question, the configured key and, when
\* the model is called, its response.
ask(query, key, resp) ==
    IF Strip(query) = << >>
    THEN [op |-> "ask", shown |-> "Please enter a question.", called |-> FALSE]
    ELSE IF KeyMissing(key)
    THEN [op |-> "ask", shown |-> "Gemini API key not configured.", called |-> FALSE]
    ELSE IF resp.exc /= "none"
    THEN [op |-> "ask", shown |-> "AI call failed", called |-> TRUE]
    ELSE IF resp.text = None \/ resp.text = ""
    THEN [op |-> "ask", shown |-> "No text returned from model.", called |-> TRUE]
    ELSE [op |-> "ask", shown |-> resp.text, called |-> TRUE]

\* The "Ask AI" button (lines 292-308).
AskAI ==
    /\ pc = "idle"
    /\ Page("AI Assistant")
    /\ \E query \in Queries, secrets \in SecretsStates, resp \in ModelResponses :
         LET r == ask(query, genai_key(secrets), resp) IN
           /\ out' = [op |-> "ask", shown |-> r.shown, called |-> r.called,
                      key |-> genai_key(secrets), query |-> query, secrets |-> secrets]
           /\ log' = IF r.called THEN <<<<"generate_content", query>>>> ELSE << >>
    /\ loc' = NoLocals
    /\ UNCHANGED <<authVars, choice, pc>>

Next ==
    \/ LoginButton \/ SignUpButton \/ Navigate \/ Logout
    \/ FetchData \/ FetchGet
    \/ RunBlast \/ BlastPost \/ BlastPoll
    \/ AskAI

Spec == Init /\ [][Next]_vars

\* ------------------------------------------------ one page of a session
\* The session after ann@lab.org signed up, logged in and opened `page`.
SignedInAt(page) ==
    /\ usersFile = [e \in {"ann@lab.org"} |-> hashpw("pw1", "salt-1")]
    /\ logged_in = TRUE
    /\ user = "ann@lab.org"
    /\ choice = page
    /\ pc = "idle"
    /\ loc = NoLocals
    /\ log = << >>
    /\ out = [op |-> "view", page |-> page]
    /\ signupCalls = [e \in Emails |-> IF e = "ann@lab.org" THEN 1 ELSE 0]
    /\ firstHash = [e \in Emails |-> IF e = "ann@lab.org"
                                      THEN hashpw("pw1", "salt-1") ELSE None]
    /\ firstPw = [e \in Emails |-> IF e = "ann@lab.org" THEN "pw1" ELSE NoPw]
    /\ verified = TRUE
    /\ sessions = NoSessions

\* The Protein Explorer page answered with entries of every sequence
\* length up to MaxSeqLen.
SeqResponses ==
    { HttpResp(200, TRUE, SeqDoc(n, k)) : n \in 0..MaxSeqLen, k \in {0, 7} }
    \cup { HttpResp(200, TRUE, RecordDoc) }
FetchGetSeq == FetchGetFrom(SeqResponses)
PreviewInit == SignedInAt("Protein Explorer")
PreviewNext == FetchData \/ FetchGetSeq
PreviewSpec == PreviewInit /\ [][PreviewNext]_vars

\* The BLAST Search page on its own.  The script thread goes on whenever a
\* request has returned or raised, and the service gives one job at most
\* MaxWaiting WAITING answers.
BlastInit == SignedInAt("BLAST Search")
BlastNext == RunBlast \/ BlastPost \/ BlastPoll
BlastSpec ==
    BlastInit /\ [][BlastNext]_vars /\ WF_vars(BlastPost) /\ WF_vars(BlastPoll)

\* ------------------------------------------- sessions running side by side
\* Two browser sessions on the login screen.  Line 140 runs at the top of
\* every script run, the button handlers further down in the same run, and
\* the runs of different sessions interleave between the two.
Running(s) == sessions[s].running
EndRun(s, in, who) == [sessions EXCEPT ![s] = NoRun(in, who)]
\* What belongs to the session of the other pages stays as it is.
OwnSession == <<logged_in, user, choice, pc, loc, log,
                signupCalls, firstHash, firstPw, verified>>

\* A script run of session s starts: users = load_users() (line 140).
RunStart(s) ==
    /\ ~Running(s)
    /\ sessions' = [sessions EXCEPT ![s].running = TRUE, ![s].users = load_users]
    /\ UNCHANGED <<usersFile, out, OwnSession>>

\* The run draws the page and ends, no button having been pressed.
RunRender(s) ==
    /\ Running(s)
    /\ sessions' = EndRun(s, sessions[s].logged_in, sessions[s].user)
    /\ UNCHANGED <<usersFile, out, OwnSession>>

\* The run handles "Sign Up" (lines 192-197) on the dict it loaded.
RunSignUp(s) ==
    /\ Running(s) /\ ~sessions[s].logged_in
    /\ \E email \in Emails, password \in Passwords, salt \in Salts :
         LET r == signup(sessions[s].users, email, hashpw(password, salt)) IN
           /\ usersFile' = IF r.saved THEN r.users ELSE usersFile
           /\ out' = [op |-> "signup", email |-> email, password |-> password,
                      ok |-> r.ok, msg |-> r.msg]
    /\ sessions' = EndRun(s, FALSE, None)
    /\ UNCHANGED OwnSession

\* The run handles "Login" (lines 179-187) on the dict it loaded; a success
\* ends in st.rerun().
RunLogin(s) ==
    /\ Running(s) /\ ~sessions[s].logged_in
    /\ \E email \in Emails, password \in Passwords :
         LET r == login(sessions[s].users, email, password) IN
           /\ out' = [op |-> "login", email |-> email, password |-> password,
                      ok |-> r.ok, msg |-> r.msg]
           /\ sessions' = IF r.ok THEN EndRun(s, TRUE, email)
                                   ELSE EndRun(s, FALSE, None)
    /\ UNCHANGED <<usersFile, OwnSession>>

\* The run handles the Logout choice (lines 340-344).
RunLogout(s) ==
    /\ Running(s) /\ sessions[s].logged_in
    /\ sessions' = EndRun(s, FALSE, None)
    /\ out' = [op |-> "logout"]
    /\ UNCHANGED <<usersFile, OwnSession>>

RaceNext ==
    \E s \in SessionIds :
       RunStart(s) \/ RunRender(s) \/ RunSignUp(s) \/ RunLogin(s) \/ RunLogout(s)
RaceSpec == Init /\ [][RaceNext]_vars

\* =============================================================== properties

\* C1: registering one identifier twice: the first call succeeds, every
\* later call fails with "User already exists!" and changes nothing, and the
\* store holds for that identifier the hash the first call wrote.
C1_RegisterTwice ==
    \A e \in Emails :
      /\ signupCalls[e] = 0 => e \notin DOMAIN usersFile
      /\ signupCalls[e] >= 1 => e \in DOMAIN usersFile /\ usersFile[e] = firstHash[e]
      /\ (out.op = "signup" /\ out.email = e) =>
            /\ out.ok <=> signupCalls[e] = 1
            /\ ~out.ok => out.msg = "User already exists!"

C1_Witness ==
    /\ out.op = "signup" /\ ~out.ok
    /\ signupCalls[out.email] = 2
    /\ out.password /= firstPw[out.email]
    /\ usersFile[out.email] = firstHash[out.email]

\* C2: a login succeeds exactly when the identifier was registered and the
\* password is the one of its registration; a registered identifier with
\* another password gets "Invalid password!", an identifier never
\* registered gets "No account found!".
C2_VerifyOutcome ==
    out.op = "login" =>
      /\ out.ok <=> (signupCalls[out.email] >= 1 /\ out.password = firstPw[out.email])
      /\ out.ok => out.msg = "Login successful!"
      /\ (signupCalls[out.email] >= 1 /\ out.password /= firstPw[out.email])
            => out.msg = "Invalid password!"
      /\ signupCalls[out.email] = 0 => out.msg = "No account found!"

C2_Witness ==
    /\ out.op = "login" /\ ~out.ok /\ out.msg = "Invalid password!"
    /\ signupCalls[out.email] = 2

\* C3: the session's user is set (is not None) exactly while logged_in is
\* true, in every state.
C3_UserIffLoggedIn == (user /= None) <=> logged_in

C3_Witness == logged_in /\ user = "" /\ out.op = "login" /\ out.ok

\* C4: a fetch, a BLAST submit or an assistant ask starts, and runs, only
\* while the session is logged in after a successful login that no logout
\* followed.
StartsOperation ==
    \/ pc = "idle" /\ pc' \in {"fetch", "submit"}
    \/ out'.op = "ask" /\ out'.called /\ (out' /= out \/ log' /= log)
C4_SessionGate ==
    /\ [](pc /= "idle" => logged_in /\ verified)
    /\ [][StartsOperation => logged_in /\ verified]_vars

C4_Witness == pc = "poll" /\ logged_in /\ user = "ann@lab.org"

\* The responses of the GET calls of the log, in order, and its sleeps.
Gets == SelectSeq(log, LAMBDA e : e[1] = "get")
Sleeps == SelectSeq(log, LAMBDA e : e[1] = "sleep")
Last(q) == q[Len(q)]
NetworkFailure(resp) == resp.exc \in {"Timeout", "ConnectionError"}
ParsedSuccess(resp) == resp.exc = "none" /\ resp.status = 200 /\ resp.isJson

\* C5: a fetch whose first response is a 404 ends at once with "not
\* found": one GET, no sleep, no retry, whatever retries is.
C5_NotFoundNoRetry ==
    (loc.h = "fetch" /\ Len(Gets) >= 1 /\ Gets[1][2].exc = "none"
        /\ Gets[1][2].status = 404)
      => /\ pc = "idle"
         /\ log = <<Gets[1]>>
         /\ out.op = "fetch" /\ out.err = "none" /\ out.data = PyNone
         /\ out.shown = "Protein not found (404)."

C5_Witness ==
    /\ loc.h = "fetch" /\ loc.retries = DefaultRetries /\ pc = "idle"
    /\ Len(log) = 1 /\ log[1][1] = "get" /\ log[1][2].status = 404

\* C6: a fetch never makes more than retries GETs; when every GET failed
\* with a timeout or another network error it made exactly retries of
\* them, then stopped and reported the failure with the last error.
C6_RetriesExhausted ==
    loc.h = "fetch" =>
      /\ Len(Gets) <= loc.retries
      /\ pc = "fetch" => Len(Gets) < loc.retries
      /\ (pc = "idle" /\ \A i \in 1..Len(Gets) : NetworkFailure(Gets[i][2]))
            => /\ Len(Gets) = loc.retries
               /\ out.err = Last(Gets)[2].exc
               /\ out.shown \in {"Request failed",
                                 "UniProt request timed out after multiple attempts."}
               /\ out.shown = "Request failed" <=> out.err /= "Timeout"

C6_Witness ==
    /\ loc.h = "fetch" /\ loc.retries = DefaultRetries /\ pc = "idle"
    /\ Len(Gets) = 3 /\ \A i \in 1..3 : Gets[i][2].exc = "Timeout"
    /\ out.err = "Timeout"

\* C7: k failed attempts and then a 200 response with a JSON body: the
\* fetch returns that body after exactly k+1 GETs and calls nothing after it.
C7_SuccessAfterFailures ==
    loc.h = "fetch" =>
      \A i \in 1..Len(Gets) :
        ParsedSuccess(Gets[i][2]) =>
          /\ i = Len(Gets) /\ Last(log) = Gets[i] /\ pc = "idle"
          /\ \A j \in 1..(i - 1) : ~ParsedSuccess(Gets[j][2]) /\ log[2 * j][1] = "sleep"
          /\ Len(log) = 2 * (i - 1) + 1
          /\ out.err = "none" /\ out.data = PyDoc(Gets[i][2].doc)

C7_Witness ==
    /\ loc.h = "fetch" /\ pc = "idle" /\ Len(Gets) = 2
    /\ Gets[1][2].exc = "Timeout"
    /\ Gets[2][2] = HttpResp(200, TRUE, RecordDoc)
    /\ out.shown = "Protein Information"

\* C8: a submit answer in which the service issued no RID: the search
\* fails with "Failed to get BLAST RID", with no poll and no sleep.
C8_NoRidNoPoll ==
    (loc.h = "blast" /\ Len(log) >= 1 /\ log[1][2].exc = "none"
        /\ ~raise_for_status(log[1][2]) /\ log[1][2].issued = << >>)
      => /\ pc = "idle"
         /\ Len(log) = 1 /\ Gets = << >> /\ Sleeps = << >>
         /\ out = Failed("Failed to get BLAST RID")

C8_Witness ==
    /\ loc.h = "blast" /\ pc = "idle" /\ Len(log) = 1
    /\ log[1][2].status = 200 /\ log[1][2].lines = <<ErrorLine>>

\* C9: with a RID issued, every poll carries that RID, every poll but the
\* last was answered WAITING, and n WAITING answers then a result document
\* make exactly n+1 polls and a table of its hits in the service's order.
Waiting(resp) == resp.exc = "none" /\ "Status=WAITING" \in resp.marks
IsResult(resp) == resp.exc = "none" /\ resp.isJson /\ resp.doc \in {ResultDoc(h) : h \in HitLists}
HitsIn(resp) == resp.doc.BlastOutput2[1].report.results.search.hits
RowMatches(row, h) ==
    /\ row["Accession"] = h.description[1].accession
    /\ row["Description"] = h.description[1].title
    /\ row["Score"] = h.hsps[1].bit_score
    /\ row["E-value"] = h.hsps[1].evalue
C9_PollUntilResult ==
    (loc.h = "blast" /\ Len(log) >= 1 /\ log[1][2].issued /= << >>
        /\ log[1][2].exc = "none") =>
      /\ loc.rid = log[1][2].issued
      /\ \A i \in 1..Len(Gets) : Gets[i][2] = log[1][2].issued
      /\ \A i \in 1..(Len(Gets) - 1) : Waiting(Gets[i][3])
      /\ pc = "poll" => \A i \in 1..Len(Gets) : Waiting(Gets[i][3])
      /\ (pc = "idle" /\ Len(Gets) >= 1) => ~Waiting(Last(Gets)[3])
      /\ (pc = "idle" /\ IsResult(Last(Gets)[3])
            /\ Len(HitsIn(Last(Gets)[3])) \in 1..TopHits)
           => /\ out.shown = "table" /\ out.err = "none"
              /\ Len(out.table) = Len(HitsIn(Last(Gets)[3]))
              /\ \A i \in 1..Len(out.table) :
                    RowMatches(out.table[i], HitsIn(Last(Gets)[3])[i])

C9_Witness ==
    /\ loc.h = "blast" /\ pc = "idle"
    /\ loc.issued = <<"A", "B", "C", "1", "2", "3">>
    /\ Len(Gets) = 3 /\ Waiting(Gets[1][3]) /\ Waiting(Gets[2][3])
    /\ Gets[3][3] = PollResp({}, TRUE, ResultDoc(<<Hit(2), Hit(1)>>))
    /\ Len(out.table) = 2
    /\ out.table[1]["Accession"] = <<"acc", 2>> /\ out.table[2]["Accession"] = <<"acc", 1>>

\* C10: a result with h hits is shown as the table of its first min(h, 10)
\* hits in the service's order; a result with no hits is shown as "No hits
\* found.", not as a failure.
C10_TopTenHits ==
    (loc.h = "blast" /\ pc = "idle" /\ Len(Gets) >= 1 /\ IsResult(Last(Gets)[3])) =>
      LET hits == HitsIn(Last(Gets)[3]) IN
        /\ Len(out.table) = Min(Len(hits), 10)
        /\ \A i \in 1..Len(out.table) : RowMatches(out.table[i], hits[i])
        /\ out.err = "none"
        /\ out.shown = IF Len(hits) = 0 THEN "No hits found." ELSE "table"

C10_Witness ==
    /\ loc.h = "blast" /\ pc = "idle" /\ Len(Gets) >= 1 /\ IsResult(Last(Gets)[3])
    /\ Len(HitsIn(Last(Gets)[3])) = 11
    /\ HitsIn(Last(Gets)[3])[1] = Hit(11)
    /\ Len(out.table) = 10 /\ out.table[10]["Accession"] = <<"acc", 2>>

C10_WitnessNoHits ==
    /\ loc.h = "blast" /\ pc = "idle" /\ Len(Gets) >= 1 /\ IsResult(Last(Gets)[3])
    /\ HitsIn(Last(Gets)[3]) = << >> /\ out.shown = "No hits found."

\* The entry a finished fetch returned, when its last response was a 200
\* with a JSON body that holds a sequence value.
FetchedSeq ==
    /\ loc.h = "fetch" /\ pc = "idle" /\ Len(Gets) >= 1
    /\ ParsedSuccess(Last(Gets)[2])
    /\ "sequence" \in DOMAIN Last(Gets)[2].doc
    /\ "value" \in DOMAIN Last(Gets)[2].doc.sequence
TheSeq == Last(Gets)[2].doc.sequence.value

\* C11 as stated: a sequence longer than 300 characters is previewed as its
\* first 300 characters and "...", every sequence of 0 to 300 characters as
\* itself.
C11_PreviewAsStated ==
    FetchedSeq =>
      /\ Len(TheSeq) > 300 =>
            out.info.preview = [i \in 1..300 |-> TheSeq[i]] \o <<".", ".", ".">>
      /\ Len(TheSeq) <= 300 => out.info.preview = TheSeq

\* C11, amended: as stated for 1 to 300 characters and for more than 300;
\* an empty sequence is previewed as "Sequence not available".
C11_Preview ==
    FetchedSeq =>
      /\ out.shown = "Protein Information"
      /\ Len(TheSeq) > 300 =>
            out.info.preview = [i \in 1..300 |-> TheSeq[i]] \o <<".", ".", ".">>
      /\ Len(TheSeq) \in 1..300 => out.info.preview = TheSeq
      /\ Len(TheSeq) = 0 => out.info.preview = <<"Sequence not available">>

C11_Witness ==
    /\ FetchedSeq /\ Len(TheSeq) = 301
    /\ Len(out.info.preview) = 303 /\ out.info.preview[300] = TheSeq[300]
    /\ out.info.preview[301] = "."

\* C12: an identifier in the credential store stays there with the same
\* hash in every later state, whatever the sessions do side by side.
C12_RecordsKept ==
    [][\A e \in DOMAIN usersFile :
          e \in DOMAIN usersFile' /\ usersFile'[e] = usersFile[e]]_vars

\* An API credential is configured: the secrets can be read, hold a
\* non-empty key, and the client accepted it.
Configured(secrets) ==
    secrets.readable /\ secrets.key /= "None" /\ secrets.key /= "" /\ secrets.configures
Blank(query) == \A i \in 1..Len(query) : query[i] \in {" ", "\t", "\n"}
ModelCalls == { i \in 1..Len(log) : log[i][1] = "generate_content" }

\* C13 as stated: whenever no credential is configured, ask reports
\* "not configured" and calls nothing; the model is called only with a
\* credential configured and a non-blank question.
C13_NotConfiguredAsStated ==
    out.op = "ask" =>
      /\ ~Configured(out.secrets) =>
            out.shown = "Gemini API key not configured." /\ ModelCalls = {}
      /\ ModelCalls /= {} => Configured(out.secrets) /\ ~Blank(out.query)

\* C13, amended: with no credential configured ask calls nothing, and
\* reports "not configured" when the question is non-blank (a blank one is
\* turned down as blank first); the model is called only with a credential
\* configured and a non-blank question.
C13_NotConfigured ==
    out.op = "ask" =>
      /\ ~Configured(out.secrets) =>
            /\ ModelCalls = {}
            /\ ~Blank(out.query) => out.shown = "Gemini API key not configured."
            /\ Blank(out.query) => out.shown = "Please enter a question."
      /\ ModelCalls /= {} => Configured(out.secrets) /\ ~Blank(out.query)

\* A key was present, the client refused it, the question was a real one.
C13_Witness ==
    /\ out.op = "ask" /\ ~Blank(out.query)
    /\ out.secrets.readable /\ out.secrets.key = "AIza-key" /\ ~out.secrets.configures
    /\ out.shown = "Gemini API key not configured." /\ log = << >>
C13_WitnessCalled ==
    out.op = "ask" /\ ModelCalls = {1} /\ log[1][2] = out.query

\* What the catalog answered, by kind.
HttpError(resp) == resp.exc = "none" /\ resp.status >= 400 /\ resp.status /= 404
NotFound404(resp) == resp.exc = "none" /\ resp.status = 404
Transient(resp) == resp.exc /= "none" \/ (resp.status = 200 /\ ~resp.isJson)
IsGet(i) == log[i][1] = "get"
IsSleep(i) == log[i][1] = "sleep"

\* C14: an HTTP error status other than 404, in whichever attempt it comes,
\* ends the fetch at once with "Request failed": it is the last entry of
\* the log, so no GET and no sleep follows it.
C14_HttpErrorAtOnce ==
    loc.h = "fetch" =>
      \A i \in 1..Len(log) :
         (IsGet(i) /\ HttpError(log[i][2]))
            => /\ i = Len(log)
               /\ pc = "idle"
               /\ out.shown = "Request failed" /\ out.err = "HTTPError"

\* A timeout, one sleep, then a 500 in the second of three attempts.
C14_Witness ==
    /\ loc.h = "fetch" /\ loc.retries = 3 /\ pc = "idle" /\ Len(log) = 3
    /\ IsGet(1) /\ log[1][2].exc = "Timeout" /\ IsSleep(2)
    /\ IsGet(3) /\ HttpError(log[3][2])

RECURSIVE Pow2(_)
Pow2(n) == IF n = 0 THEN 1 ELSE 2 * Pow2(n - 1)
GetsBefore(i) == Cardinality({ j \in 1..(i - 1) : IsGet(j) })

\* C15: the wait before attempt i+1 lasts 2^(i-1) seconds; every wait
\* stands between a transient failure and the next attempt; nothing is
\* waited after the last attempt, a success, a 404 or another HTTP error.
C15_BackoffSchedule ==
    loc.h = "fetch" =>
      /\ \A i \in 1..Len(log) :
            IsSleep(i) =>
              /\ i > 1 /\ IsGet(i - 1) /\ Transient(log[i - 1][2])
              /\ log[i][2] = Pow2(GetsBefore(i) - 1)
              /\ GetsBefore(i) < loc.retries
              /\ IF i < Len(log) THEN IsGet(i + 1) ELSE pc = "fetch"
      /\ \A i \in 1..Len(log) :
            IsGet(i) =>
              /\ (i < Len(log)) => (IsSleep(i + 1) /\ Transient(log[i][2]))
              /\ (ParsedSuccess(log[i][2]) \/ NotFound404(log[i][2])
                    \/ HttpError(log[i][2]) \/ GetsBefore(i) + 1 = loc.retries)
                   => (i = Len(log) /\ pc = "idle")

\* Three attempts with waits of 1 and 2 seconds, and none after the third.
C15_Witness ==
    /\ loc.h = "fetch" /\ loc.retries = 3 /\ pc = "idle" /\ Len(log) = 5
    /\ IsSleep(2) /\ log[2][2] = 1 /\ IsSleep(4) /\ log[4][2] = 2
    /\ Transient(log[5][2])

\* The poll responses by kind, as the loop tells them apart.
JobFailed(resp) == resp.exc = "none" /\ ~Waiting(resp) /\ "Status=FAILED" \in resp.marks
JobDone(resp) == resp.exc = "none" /\ ~Waiting(resp) /\ ~JobFailed(resp)

\* C16: the first FAILED answer, after any number of WAITING ones, ends the
\* search with "BLAST search failed", no further poll and no hit list; an
\* answer that is neither WAITING nor FAILED ends the polling with the job
\* done; a job that is done or failed is not polled again.
C16_PollStateMachine ==
    /\ [](loc.h = "blast" =>
            \A i \in 1..Len(Gets) :
               /\ i < Len(Gets) => Waiting(Gets[i][3])
               /\ JobFailed(Gets[i][3]) =>
                     /\ pc = "idle" /\ Last(log) = Gets[i]
                     /\ out.shown = "BLAST failed" /\ out.err = "BLAST search failed"
                     /\ out.table = << >>
               /\ JobDone(Gets[i][3]) =>
                     /\ pc = "idle" /\ Last(log) = Gets[i]
                     /\ out.err /= "BLAST search failed")
    /\ [][pc = "idle" => pc' /= "poll"]_vars

\* Two WAITING answers, then FAILED.
C16_Witness ==
    /\ loc.h = "blast" /\ pc = "idle" /\ Len(Gets) = 3
    /\ Waiting(Gets[1][3]) /\ Waiting(Gets[2][3]) /\ JobFailed(Gets[3][3])
    /\ out.err = "BLAST search failed"
C16_WitnessDone ==
    /\ loc.h = "blast" /\ pc = "idle" /\ Len(Gets) = 2
    /\ Waiting(Gets[1][3]) /\ JobDone(Gets[2][3]) /\ out.shown = "table"

\* The final payload is a well-formed result: every field of the path
\* BlastOutput2[0].report.results.search.hits is there, and every hit has
\* accession, title, bit score and e-value.
HitHasFields(h) ==
    /\ "description" \in DOMAIN h /\ Len(h.description) >= 1
    /\ "accession" \in DOMAIN h.description[1] /\ "title" \in DOMAIN h.description[1]
    /\ "hsps" \in DOMAIN h /\ Len(h.hsps) >= 1
    /\ "bit_score" \in DOMAIN h.hsps[1] /\ "evalue" \in DOMAIN h.hsps[1]
WellFormed(doc) ==
    /\ "BlastOutput2" \in DOMAIN doc /\ Len(doc.BlastOutput2) >= 1
    /\ "report" \in DOMAIN doc.BlastOutput2[1]
    /\ "results" \in DOMAIN doc.BlastOutput2[1].report
    /\ "search" \in DOMAIN doc.BlastOutput2[1].report.results
    /\ "hits" \in DOMAIN doc.BlastOutput2[1].report.results.search
    /\ \A i \in 1..Len(doc.BlastOutput2[1].report.results.search.hits) :
          HitHasFields(doc.BlastOutput2[1].report.results.search.hits[i])
FinalPayload ==
    loc.h = "blast" /\ pc = "idle" /\ Len(Gets) >= 1 /\ JobDone(Last(Gets)[3])

\* C17: a final payload that is not JSON, lacks a field of the path to the
\* hit list, or holds a hit without accession, title, bit score or e-value
\* ends the search with an error, never with a table or "No hits found.".
C17_MalformedIsError ==
    (FinalPayload /\ (~Last(Gets)[3].isJson \/ ~WellFormed(Last(Gets)[3].doc)))
       => out.shown = "BLAST failed" /\ out.err /= "none"

AllWaiting == \A i \in 1..Len(Gets) : Waiting(Gets[i][3])

\* C18: as long as every answer is WAITING the search neither fails nor
\* returns and goes on polling, however many answers that is; it ends only
\* on an answer that is not WAITING or on a request that raised; and when
\* the service does give such an answer, every search that started ends.
C18_NoPollCap ==
    /\ [](loc.h = "blast" /\ Len(Gets) >= 1 /\ AllWaiting
            => pc = "poll" /\ out.shown = "running" /\ loc.waits = Len(Gets))
    /\ [](loc.h = "blast" /\ pc = "idle" /\ Len(Gets) >= 1 => ~Waiting(Last(Gets)[3]))
    /\ (pc \in {"submit", "poll"} ~> pc = "idle")

C18_Witness ==
    /\ loc.h = "blast" /\ pc = "poll" /\ Len(Gets) = MaxWaiting /\ AllWaiting

\* C19: a signup, and a login that failed, leave logged_in and user as they
\* were; a login leaves the credential store as it was; logged_in or user
\* change only in a login that succeeded or in a logout.
C19_SessionFrame ==
    [][/\ out'.op = "signup" => (logged_in' = logged_in /\ user' = user)
       /\ out'.op = "login" =>
             /\ usersFile' = usersFile
             /\ ~out'.ok => (logged_in' = logged_in /\ user' = user)
       /\ (logged_in' /= logged_in \/ user' /= user) =>
             \/ out'.op = "login" /\ out'.ok /\ logged_in' /\ user' = out'.email
             \/ out'.op = "logout" /\ ~logged_in' /\ user' = "None"]_vars

\* A signup that succeeded, the session still logged out.
C19_Witness ==
    /\ out.op = "signup" /\ out.ok /\ out.email \in DOMAIN usersFile
    /\ ~logged_in /\ user = "None"
C19_WitnessFailedLogin ==
    /\ out.op = "login" /\ ~out.ok /\ out.email \in DOMAIN usersFile
    /\ ~logged_in /\ user = "None"

\* C20: a finished fetch reports "not found" only when the last answer was
\* a 404; a 200 with a JSON body, the empty object too, is shown as a
\* protein record, with a placeholder for every field the body lacks.
C20_NotFoundOnly404 ==
    (loc.h = "fetch" /\ pc = "idle" /\ Len(Gets) >= 1) =>
      /\ out.shown = "Protein not found (404)." => NotFound404(Last(Gets)[2])
      /\ ParsedSuccess(Last(Gets)[2]) =>
            /\ out.shown = "Protein Information"
            /\ "organism" \notin DOMAIN Last(Gets)[2].doc
                  => out.info.organism = "Organism not available"
            /\ "proteinDescription" \notin DOMAIN Last(Gets)[2].doc
                  => out.info.name = "Name not available"
            /\ "sequence" \notin DOMAIN Last(Gets)[2].doc
                  => out.info.preview = <<"Sequence not available">>
====
